---- MODULE Spec2Model ----
(***************************************************************************)
(* Backend selection (context_ops and its thread-local shadow) and the GPU *)
(* memory pool registry of thinc/backends/__init__.py.                     *)
(*                                                                         *)
(* An Ops object is modelled by the one thing the module ever reads of it, *)
(* its class (contextvars_eq_thread_ops compares type(...)); everything    *)
(* else the module does with an Ops object is to pass the reference on.    *)
(* NoOps stands for "no object": an unset context variable, a thread       *)
(* without a __local attribute.                                            *)
(* A logical task owns one contextvars.Context and runs on one OS thread;  *)
(* the tasks of a thread are scheduled cooperatively, so only the task     *)
(* that is running on its thread performs operations.                      *)
(* A MemoryPool object is a positive index into poolHeap, the sequence of  *)
(* all pools constructed so far; 0 is "no pool".                           *)
(***************************************************************************)
EXTENDS Naturals, Sequences, FiniteSets

\* ---------------------------------------------------------------- bounds
MaxTasks == 2
MaxThreads == 2
MaxOpen == 2

\* ------------------------------------------------------------- variables
VARIABLES
    thread,     \* thread[t]: the OS thread task t runs on
    ctx,        \* ctx[t]: binding of context_ops in task t's Context, NoOps = unset
    stack,      \* stack[t]: current_ops of the open use_ops generators of t, innermost last
    entered,    \* entered[t]: what get_current_ops() was right before each open block of t
    seen,       \* seen[t]: what get_current_ops() was when t suspended, NoOps while t runs
    tls,        \* tls[th]: thread.__local.ops of thread th, NoOps = no __local attribute yet
    running,    \* running[th]: the task currently running on thread th
    installed,  \* the optional libraries importable in this process
    pools,      \* the dict behind context_pools: framework tag -> pool, 0 = no entry
    poolHeap,   \* poolHeap[p]: allocator tag of MemoryPool object p, all pools ever constructed
    poolMaker,  \* poolMaker[p]: the task that constructed MemoryPool object p
    allocator,  \* the pool whose malloc is cupy's active allocator, 0 = cupy's own
    lastTag,    \* the tag of the most recent successful gpu-allocator call, "none" at start
    rpc,        \* rpc[t]: position of task t inside use_*_for_gpu_memory
    rtag,       \* rtag[t]: the framework tag of the call task t is inside
    rnew,       \* rnew[t]: the MemoryPool task t has constructed and not yet stored
    installs,   \* the completed set_allocator calls, as <<tag, pool>>
    last        \* the operation that produced this state

vars == <<thread, ctx, stack, entered, seen, tls, running, installed, pools, poolHeap,
          poolMaker, allocator, lastTag, rpc, rtag, rnew, installs, last>>

opsVars == <<thread, ctx, stack, entered, seen, tls, running>>
poolVars == <<installed, pools, poolHeap, poolMaker, allocator, lastTag>>
raceVars == <<rpc, rtag, rnew, installs>>

\* ------------------------------------------------------------- constants
OpsNames == {"numpy", "cupy", "nonexistent"}
Frameworks == {"pytorch", "tensorflow"}
AllocatorNames == {"pytorch", "tensorflow", "mxnet"}
Libraries == {"cupy", "pytorch", "tensorflow"}

NoOps == ""
NumpyOps == "NumpyOps"
CupyOps == "CupyOps"
\* what set_current_ops(ops: Ops) may be handed: an object of either backend
\* class or of another subclass of Ops
AllOps == {NumpyOps, CupyOps, "Ops"}

\* ContextVar("context_ops", default=NumpyOps())
DefaultOps == NumpyOps
\* _GLOBAL_STATE = {"ops": NumpyOps()}
GlobalOps == NumpyOps

Tasks == 1..Len(thread)
Threads == 1..Len(tls)
IsRunning(t) == running[thread[t]] = t

RECURSIVE SumLen(_)
SumLen(s) == IF s = <<>> THEN 0 ELSE Len(Head(s)) + SumLen(Tail(s))
\* the number of use_ops blocks open in the process
Open == SumLen(stack)

NoPools == [f \in Frameworks |-> 0]

Op(op, t) ==
    [op |-> op, task |-> t, arg |-> "", err |-> "", ret |-> "",
     prePools |-> NoPools, preAlloc |-> 0, preMade |-> 0]

\* ------------------------------------------------------ scoped context
\* ContextVar.get(): the binding of the Context, the default when it has none
context_get(c) == IF c = NoOps THEN DefaultOps ELSE c

get_current_ops(t) == context_get(ctx[t])

\* the ops attribute of a thread's __local, created from _GLOBAL_STATE on first use
local_ops(v) == IF v = NoOps THEN GlobalOps ELSE v

\* the value _get_thread_state().ops yields on thread th
shadow_ops(th) == local_ops(tls[th])

get_thread_state_shared(th) ==
    [tls EXCEPT ![th] = IF tls[th] = NoOps THEN shadow_ops(1) ELSE tls[th]]

\* _get_thread_state(): the first access on a thread creates thread.__local
get_thread_state(th) == [tls EXCEPT ![th] = shadow_ops(th)]

set_current_ops_ctx_only(t, o) ==
    /\ ctx' = [ctx EXCEPT ![t] = o]
    /\ tls' = get_thread_state(thread[t])

set_current_ops_thread_wide(t, o) ==
    /\ ctx' = [u \in Tasks |-> IF thread[u] = thread[t] THEN o ELSE ctx[u]]
    /\ tls' = [tls EXCEPT ![thread[t]] = o]

set_current_ops_process_wide(t, o) ==
    /\ ctx' = [ctx EXCEPT ![t] = o]
    /\ tls' = [th \in Threads |-> o]

set_current_ops(t, o) ==
    /\ ctx' = [ctx EXCEPT ![t] = o]
    /\ tls' = [tls EXCEPT ![thread[t]] = o]

get_ops_fallback(name) ==
    CASE name = "cupy" -> CupyOps
      [] OTHER -> NumpyOps

\* get_ops: the object constructed for a registered name, NoOps when it raises
get_ops(name) ==
    CASE name = "numpy" -> NumpyOps
      [] name = "cupy" -> CupyOps
      [] OTHER -> NoOps

\* the values get_array_ops is called with, named by where their data is stored
Arrays == {"cupy.ndarray", "numpy.ndarray", "list"}

\* util.is_cupy_array: the value is an array held in device memory
is_cupy_array(arr) == arr = "cupy.ndarray"

get_array_ops_swapped(arr) == IF is_cupy_array(arr) THEN NumpyOps ELSE CupyOps

get_array_ops(arr) == IF is_cupy_array(arr) THEN CupyOps ELSE NumpyOps

contextvars_eq_thread_ops(t) == get_current_ops(t) = shadow_ops(thread[t])

\* ------------------------------------------------------- backend actions
SetCurrentOps(t, o) ==
    /\ IsRunning(t)
    /\ set_current_ops(t, o)
    /\ last' = [Op("set", t) EXCEPT !.arg = o]
    /\ UNCHANGED <<thread, stack, entered, seen, running, poolVars, raceVars>>

use_ops_enter_fallback(t, name) ==
    IF get_ops(name) = NoOps
    THEN /\ set_current_ops(t, DefaultOps)
         /\ stack' = stack
    ELSE /\ set_current_ops(t, get_ops(name))
         /\ stack' = [stack EXCEPT ![t] = Append(@, get_current_ops(t))]

\* use_ops up to its yield: lines 71-73
use_ops_enter(t, name) ==
    IF get_ops(name) = NoOps
    THEN UNCHANGED <<ctx, tls, stack>>
    ELSE /\ set_current_ops(t, get_ops(name))
         /\ stack' = [stack EXCEPT ![t] = Append(@, get_current_ops(t))]

UseOpsEnter(t, name) ==
    /\ IsRunning(t)
    /\ Open < MaxOpen
    /\ use_ops_enter(t, name)
    /\ entered' = IF get_ops(name) = NoOps THEN entered
                  ELSE [entered EXCEPT ![t] = Append(@, get_current_ops(t))]
    /\ last' = [Op("enter", t) EXCEPT !.arg = name,
                    !.err = IF get_ops(name) = NoOps THEN "ValueError" ELSE ""]
    /\ UNCHANGED <<thread, seen, running, poolVars, raceVars>>

use_ops_exit_default(t) ==
    /\ set_current_ops(t, DefaultOps)
    /\ stack' = [stack EXCEPT ![t] = SubSeq(@, 1, Len(@) - 1)]

use_ops_exit_ctx_only(t) ==
    /\ set_current_ops_ctx_only(t, stack[t][Len(stack[t])])
    /\ stack' = [stack EXCEPT ![t] = SubSeq(@, 1, Len(@) - 1)]

\* use_ops resumed after its yield by a normal exit of the block: line 74
use_ops_exit(t) ==
    /\ set_current_ops(t, stack[t][Len(stack[t])])
    /\ stack' = [stack EXCEPT ![t] = SubSeq(@, 1, Len(@) - 1)]

UseOpsExit(t) ==
    /\ IsRunning(t)
    /\ Len(stack[t]) > 0
    /\ use_ops_exit(t)
    /\ entered' = [entered EXCEPT ![t] = SubSeq(@, 1, Len(@) - 1)]
    /\ last' = [Op("exit", t) EXCEPT !.arg = entered[t][Len(entered[t])]]
    /\ UNCHANGED <<thread, seen, running, poolVars, raceVars>>

\* the block raises: contextmanager throws the error into the generator at the
\* yield of line 73, no try statement encloses it, line 74 does not run
use_ops_raise(t) ==
    /\ stack' = [stack EXCEPT ![t] = SubSeq(@, 1, Len(@) - 1)]
    /\ UNCHANGED <<ctx, tls>>

UseOpsRaise(t) ==
    /\ IsRunning(t)
    /\ Len(stack[t]) > 0
    /\ use_ops_raise(t)
    /\ entered' = [entered EXCEPT ![t] = SubSeq(@, 1, Len(@) - 1)]
    /\ last' = [Op("raise", t) EXCEPT !.arg = entered[t][Len(entered[t])],
                                      !.err = "BlockError"]
    /\ UNCHANGED <<thread, seen, running, poolVars, raceVars>>

ContextvarsEqThreadOps(t) ==
    /\ IsRunning(t)
    /\ tls' = get_thread_state(thread[t])
    /\ last' = Op("views_agree", t)
    /\ UNCHANGED <<thread, ctx, stack, entered, seen, running, poolVars, raceVars>>

\* get_ops called on its own: it constructs an object or raises, and writes nothing
GetOps(t, name) ==
    /\ IsRunning(t)
    /\ last' = [Op("get_ops", t) EXCEPT !.arg = name, !.ret = get_ops(name),
                    !.err = IF get_ops(name) = NoOps THEN "ValueError" ELSE ""]
    /\ UNCHANGED <<opsVars, poolVars, raceVars>>

GetArrayOps(t, arr) ==
    /\ IsRunning(t)
    /\ last' = [Op("get_array_ops", t) EXCEPT !.arg = arr, !.ret = get_array_ops(arr)]
    /\ UNCHANGED <<opsVars, poolVars, raceVars>>

\* a new logical task of the same thread: it runs in a copy of the creating
\* task's Context and is scheduled later
SpawnTask(t) ==
    /\ IsRunning(t)
    /\ rpc[t] = "idle"
    /\ Len(thread) < MaxTasks
    /\ thread' = Append(thread, thread[t])
    /\ ctx' = Append(ctx, ctx[t])
    /\ stack' = Append(stack, <<>>)
    /\ entered' = Append(entered, <<>>)
    /\ seen' = Append(seen, NoOps)
    /\ rpc' = Append(rpc, "idle")
    /\ rtag' = Append(rtag, "")
    /\ rnew' = Append(rnew, 0)
    /\ last' = Op("spawn_task", t)
    /\ UNCHANGED <<tls, running, poolVars, installs>>

\* a new OS thread: it starts in an empty Context and without a __local attribute
SpawnThread(t) ==
    /\ IsRunning(t)
    /\ rpc[t] = "idle"
    /\ Len(thread) < MaxTasks
    /\ Len(tls) < MaxThreads
    /\ thread' = Append(thread, Len(tls) + 1)
    /\ ctx' = Append(ctx, NoOps)
    /\ stack' = Append(stack, <<>>)
    /\ entered' = Append(entered, <<>>)
    /\ seen' = Append(seen, NoOps)
    /\ tls' = Append(tls, NoOps)
    /\ running' = Append(running, Len(thread) + 1)
    /\ rpc' = Append(rpc, "idle")
    /\ rtag' = Append(rtag, "")
    /\ rnew' = Append(rnew, 0)
    /\ last' = Op("spawn_thread", t)
    /\ UNCHANGED <<poolVars, installs>>

\* task t suspends at a yield point and task u of the same thread resumes
Yield(t, u) ==
    /\ IsRunning(t)
    /\ u # t
    /\ thread[u] = thread[t]
    /\ running' = [running EXCEPT ![thread[t]] = u]
    /\ seen' = [seen EXCEPT ![t] = get_current_ops(t), ![u] = NoOps]
    /\ last' = Op("yield", t)
    /\ UNCHANGED <<thread, ctx, stack, entered, tls, poolVars, raceVars>>

\* ------------------------------------------------------- pool registry
\* import cupy.cuda (lines 35, 45) succeeds
import_cupy_cuda == "cupy" \in installed

\* assert_pytorch_installed() / assert_tensorflow_installed() return
assert_pytorch_installed == "pytorch" \in installed
assert_tensorflow_installed == "tensorflow" \in installed

\* the error a use_*_for_gpu_memory call ends with, "" when it returns
gpu_memory_error(tag) ==
    IF import_cupy_cuda /\ tag \in installed THEN "" ELSE "MissingDependencyError"

use_pytorch_always_new ==
    IF ~import_cupy_cuda \/ ~assert_pytorch_installed
    THEN UNCHANGED <<pools, poolHeap, allocator>>
    ELSE /\ poolHeap' = Append(poolHeap, "pytorch")
         /\ pools' = [pools EXCEPT !["pytorch"] = Len(poolHeap) + 1]
         /\ allocator' = pools'["pytorch"]

use_pytorch_assert_late ==
    IF ~import_cupy_cuda
    THEN UNCHANGED <<pools, poolHeap, allocator>>
    ELSE /\ IF pools["pytorch"] = 0
            THEN /\ poolHeap' = Append(poolHeap, "pytorch")
                 /\ pools' = [pools EXCEPT !["pytorch"] = Len(poolHeap) + 1]
            ELSE UNCHANGED <<pools, poolHeap>>
         /\ allocator' = IF assert_pytorch_installed THEN pools'["pytorch"] ELSE allocator

use_pytorch_install_on_create ==
    IF ~import_cupy_cuda \/ ~assert_pytorch_installed
    THEN UNCHANGED <<pools, poolHeap, allocator>>
    ELSE IF pools["pytorch"] = 0
         THEN /\ poolHeap' = Append(poolHeap, "pytorch")
              /\ pools' = [pools EXCEPT !["pytorch"] = Len(poolHeap) + 1]
              /\ allocator' = pools'["pytorch"]
         ELSE UNCHANGED <<pools, poolHeap, allocator>>

use_pytorch_for_gpu_memory ==
    IF ~import_cupy_cuda \/ ~assert_pytorch_installed
    THEN UNCHANGED <<pools, poolHeap, allocator>>
    ELSE /\ IF pools["pytorch"] = 0
            THEN /\ poolHeap' = Append(poolHeap, "pytorch")
                 /\ pools' = [pools EXCEPT !["pytorch"] = Len(poolHeap) + 1]
            ELSE UNCHANGED <<pools, poolHeap>>
         /\ allocator' = pools'["pytorch"]

use_tensorflow_for_gpu_memory ==
    IF ~import_cupy_cuda \/ ~assert_tensorflow_installed
    THEN UNCHANGED <<pools, poolHeap, allocator>>
    ELSE /\ IF pools["tensorflow"] = 0
            THEN /\ poolHeap' = Append(poolHeap, "tensorflow")
                 /\ pools' = [pools EXCEPT !["tensorflow"] = Len(poolHeap) + 1]
            ELSE UNCHANGED <<pools, poolHeap>>
         /\ allocator' = pools'["tensorflow"]

set_gpu_allocator_default_pytorch(name) ==
    CASE name = "tensorflow" -> use_tensorflow_for_gpu_memory
      [] OTHER -> use_pytorch_for_gpu_memory

set_gpu_allocator(name) ==
    CASE name = "pytorch" -> use_pytorch_for_gpu_memory
      [] name = "tensorflow" -> use_tensorflow_for_gpu_memory
      [] OTHER -> UNCHANGED <<pools, poolHeap, allocator>>

set_gpu_allocator_error(name) ==
    IF name \in Frameworks THEN gpu_memory_error(name) ELSE "ValueError"

PoolCall(op, t, name, err) ==
    [Op(op, t) EXCEPT !.arg = name, !.err = err, !.prePools = pools,
                      !.preAlloc = allocator, !.preMade = Len(poolHeap)]

SetGpuAllocator(t, name) ==
    /\ IsRunning(t)
    /\ set_gpu_allocator(name)
    /\ poolMaker' = IF Len(poolHeap') > Len(poolHeap) THEN Append(poolMaker, t) ELSE poolMaker
    /\ lastTag' = IF set_gpu_allocator_error(name) = "" THEN name ELSE lastTag
    /\ last' = PoolCall("set_gpu_allocator", t, name, set_gpu_allocator_error(name))
    /\ UNCHANGED <<installed, opsVars, raceVars>>

UsePytorchForGpuMemory(t) ==
    /\ IsRunning(t)
    /\ use_pytorch_for_gpu_memory
    /\ poolMaker' = IF Len(poolHeap') > Len(poolHeap) THEN Append(poolMaker, t) ELSE poolMaker
    /\ lastTag' = IF gpu_memory_error("pytorch") = "" THEN "pytorch" ELSE lastTag
    /\ last' = PoolCall("use_for_gpu_memory", t, "pytorch", gpu_memory_error("pytorch"))
    /\ UNCHANGED <<installed, opsVars, raceVars>>

UseTensorflowForGpuMemory(t) ==
    /\ IsRunning(t)
    /\ use_tensorflow_for_gpu_memory
    /\ poolMaker' = IF Len(poolHeap') > Len(poolHeap) THEN Append(poolMaker, t) ELSE poolMaker
    /\ lastTag' = IF gpu_memory_error("tensorflow") = "" THEN "tensorflow" ELSE lastTag
    /\ last' = PoolCall("use_for_gpu_memory", t, "tensorflow", gpu_memory_error("tensorflow"))
    /\ UNCHANGED <<installed, opsVars, raceVars>>

\* ------------------------------------- pool registry, statement by statement
\* use_<tag>_for_gpu_memory run by concurrent threads: the import and the
\* assertion (35-37, 45-47), the membership test (39, 49), the construction of
\* the MemoryPool and its store into the dict (40, 50), set_allocator (41, 51)
RaceCall(t, tag) ==
    /\ IsRunning(t)
    /\ rpc[t] = "idle"
    /\ IF gpu_memory_error(tag) = ""
       THEN /\ rpc' = [rpc EXCEPT ![t] = "check"]
            /\ rtag' = [rtag EXCEPT ![t] = tag]
            /\ last' = [Op("race_call", t) EXCEPT !.arg = tag]
       ELSE /\ UNCHANGED <<rpc, rtag>>
            /\ last' = [Op("race_call", t) EXCEPT !.arg = tag, !.err = gpu_memory_error(tag)]
    /\ UNCHANGED <<opsVars, poolVars, rnew, installs>>

RaceCheck(t) ==
    /\ rpc[t] = "check"
    /\ rpc' = [rpc EXCEPT ![t] = IF pools[rtag[t]] = 0 THEN "construct" ELSE "install"]
    /\ last' = [Op("race_check", t) EXCEPT !.arg = rtag[t]]
    /\ UNCHANGED <<opsVars, poolVars, rtag, rnew, installs>>

RaceConstruct(t) ==
    /\ rpc[t] = "construct"
    /\ poolHeap' = Append(poolHeap, rtag[t])
    /\ rnew' = [rnew EXCEPT ![t] = Len(poolHeap) + 1]
    /\ poolMaker' = Append(poolMaker, t)
    /\ rpc' = [rpc EXCEPT ![t] = "store"]
    /\ last' = [Op("race_construct", t) EXCEPT !.arg = rtag[t]]
    /\ UNCHANGED <<opsVars, installed, pools, allocator, lastTag, rtag, installs>>

RaceStore(t) ==
    /\ rpc[t] = "store"
    /\ pools' = [pools EXCEPT ![rtag[t]] = rnew[t]]
    /\ rnew' = [rnew EXCEPT ![t] = 0]
    /\ rpc' = [rpc EXCEPT ![t] = "install"]
    /\ last' = [Op("race_store", t) EXCEPT !.arg = rtag[t]]
    /\ UNCHANGED <<opsVars, installed, poolHeap, poolMaker, allocator, lastTag, rtag, installs>>

RaceInstall(t) ==
    /\ rpc[t] = "install"
    /\ allocator' = pools[rtag[t]]
    /\ installs' = installs \cup {<<rtag[t], pools[rtag[t]]>>}
    /\ lastTag' = rtag[t]
    /\ rpc' = [rpc EXCEPT ![t] = "idle"]
    /\ rtag' = [rtag EXCEPT ![t] = ""]
    /\ last' = [Op("race_install", t) EXCEPT !.arg = rtag[t]]
    /\ UNCHANGED <<opsVars, installed, pools, poolHeap, poolMaker, rnew>>

\* ------------------------------------------------------------------ Init
Init ==
    /\ thread = <<1>>
    /\ ctx = <<NoOps>>
    /\ stack = << <<>> >>
    /\ entered = << <<>> >>
    /\ seen = <<NoOps>>
    /\ tls = <<NoOps>>
    /\ running = <<1>>
    /\ installed \in SUBSET Libraries
    /\ pools = NoPools
    /\ poolHeap = <<>>
    /\ poolMaker = <<>>
    /\ allocator = 0
    /\ lastTag = "none"
    /\ rpc = <<"idle">>
    /\ rtag = <<"">>
    /\ rnew = <<0>>
    /\ installs = {}
    /\ last = Op("init", 0)

\* the backend operations do not read which libraries are installed
InitOps == Init /\ installed = Libraries

Next ==
    \/ \E t \in Tasks, o \in AllOps : SetCurrentOps(t, o)
    \/ \E t \in Tasks, name \in OpsNames : UseOpsEnter(t, name)
    \/ \E t \in Tasks : UseOpsExit(t)
    \/ \E t \in Tasks : UseOpsRaise(t)
    \/ \E t \in Tasks : ContextvarsEqThreadOps(t)
    \/ \E t \in Tasks : SpawnTask(t)
    \/ \E t \in Tasks : SpawnThread(t)
    \/ \E t, u \in Tasks : Yield(t, u)

\* the backend operations of cooperative tasks and threads
Spec == InitOps /\ [][Next]_vars

NextFactory ==
    \/ \E t \in Tasks, name \in OpsNames : GetOps(t, name)
    \/ \E t \in Tasks, arr \in Arrays : GetArrayOps(t, arr)
    \/ \E t \in Tasks, o \in AllOps : SetCurrentOps(t, o)
    \/ \E t \in Tasks : ContextvarsEqThreadOps(t)
    \/ \E t \in Tasks : SpawnTask(t)
    \/ \E t \in Tasks : SpawnThread(t)
    \/ \E t, u \in Tasks : Yield(t, u)

\* the backend factory functions, called in any state the switches can produce
SpecFactory == InitOps /\ [][NextFactory]_vars

NextPools ==
    \/ \E t \in Tasks, name \in AllocatorNames : SetGpuAllocator(t, name)
    \/ \E t \in Tasks : UsePytorchForGpuMemory(t)
    \/ \E t \in Tasks : UseTensorflowForGpuMemory(t)
    \/ \E t \in Tasks : SpawnTask(t)
    \/ \E t \in Tasks : SpawnThread(t)
    \/ \E t, u \in Tasks : Yield(t, u)

\* gpu-allocator calls that do not overlap, made from any task or thread
SpecPools == Init /\ [][NextPools]_vars

NextRace ==
    \/ \E t \in Tasks, tag \in Frameworks : RaceCall(t, tag)
    \/ \E t \in Tasks : RaceCheck(t)
    \/ \E t \in Tasks : RaceConstruct(t)
    \/ \E t \in Tasks : RaceStore(t)
    \/ \E t \in Tasks : RaceInstall(t)
    \/ \E t \in Tasks : SpawnThread(t)

\* gpu-allocator calls of concurrent threads, interleaved statement by statement
SpecRace == Init /\ [][NextRace]_vars

\* ================================================================ claims
PoolOps == {"set_gpu_allocator", "use_for_gpu_memory"}
Made(tag) == {p \in 1..Len(poolHeap) : poolHeap[p] = tag}

\* C1: when a use_ops block exits normally, get_current_ops() of the task is the
\* object that was current right before that block was entered, at any depth
StackDiscipline ==
    last.op = "exit" => get_current_ops(last.task) = last.arg

\* an inner block has exited inside an outer block that was entered while an
\* object installed by set_current_ops was current
StackDisciplineWitness ==
    /\ last.op = "exit"
    /\ Len(stack[last.task]) > 0
    /\ entered[last.task][1] = "Ops"
    /\ get_current_ops(last.task) = CupyOps

\* C2: when the block of use_ops raises, get_current_ops() after the block is
\* the object that was current right before the block was entered
ExceptionSafety ==
    last.op = "raise" => get_current_ops(last.task) = last.arg

\* C3: right after set_current_ops(B) both get_current_ops() and the thread's
\* __local.ops are B, and contextvars_eq_thread_ops() is true
SwitchSyncsViews ==
    last.op = "set" =>
        /\ get_current_ops(last.task) = last.arg
        /\ tls[thread[last.task]] = last.arg
        /\ contextvars_eq_thread_ops(last.task)

\* set_current_ops(CupyOps) has run on a thread whose shadow held another class
SwitchSyncsViewsWitness ==
    /\ last.op = "set"
    /\ last.arg = CupyOps
    /\ Len(stack[last.task]) > 0
    /\ stack[last.task][1] = NumpyOps

\* C4: a spawned task starts with the spawning task's get_current_ops(), and a
\* set_current_ops in one task leaves get_current_ops() of every other task as it was
TaskInheritanceIsolation ==
    [][/\ last'.op = "spawn_task" =>
            context_get(ctx'[Len(thread')]) = get_current_ops(last'.task)
       /\ last'.op = "set" =>
            \A u \in Tasks \ {last'.task} : context_get(ctx'[u]) = get_current_ops(u)]_vars

\* the child of task 1, spawned while a non-default object was current, has set
\* another object than its parent's
TaskInheritanceIsolationWitness ==
    /\ last.op = "set"
    /\ last.task = 2
    /\ thread[2] = thread[1]
    /\ get_current_ops(1) = CupyOps
    /\ get_current_ops(2) = "Ops"

\* C5, as claimed: the exit of a use_ops block leaves the thread's shadow as it was
ShadowUnaffectedByRestore ==
    [][last'.op = "exit" =>
        local_ops(tls'[thread[last'.task]]) = shadow_ops(thread[last'.task])]_vars

\* C5, amended: the exit of a use_ops block writes the restored object to the
\* thread's shadow too, so the shadow is the object get_current_ops() returns
RestoreWritesShadow ==
    last.op = "exit" =>
        /\ tls[thread[last.task]] = last.arg
        /\ shadow_ops(thread[last.task]) = get_current_ops(last.task)

\* a block entered while CupyOps was current has exited
RestoreWritesShadowWitness ==
    /\ last.op = "exit"
    /\ last.arg = CupyOps
    /\ tls[thread[last.task]] = CupyOps

\* C6: calls that do not overlap construct at most one pool per tag, and a call
\* for a tag that has a pool constructs nothing, leaves the registry as it was
\* and installs the pool the registry already held
PoolIdempotent ==
    /\ \A f \in Frameworks : Cardinality(Made(f)) <= 1
    /\ (last.op \in PoolOps /\ last.err = "" /\ last.prePools[last.arg] # 0) =>
            /\ pools = last.prePools
            /\ Len(poolHeap) = last.preMade
            /\ allocator = last.prePools[last.arg]

\* a second successful call for a tag whose pool existed, after the other tag's
\* pool had been made the allocator
PoolIdempotentWitness ==
    /\ last.op \in PoolOps
    /\ last.err = ""
    /\ last.prePools[last.arg] # 0
    /\ last.preAlloc # last.prePools[last.arg]

\* C7: under every interleaving of concurrent calls, one pool is constructed per
\* tag and every call for the tag installs that pool
OnePoolUnderRace ==
    /\ \A f \in Frameworks : Cardinality(Made(f)) <= 1
    /\ \A i, j \in installs : i[1] = j[1] => i[2] = j[2]

\* C8: from the moment a task suspends up to and including its resumption, its
\* get_current_ops() is what it was when the task suspended
SurvivesSuspension ==
    [][\A u \in Tasks : seen[u] # NoOps => context_get(ctx'[u]) = seen[u]]_vars

\* task 1 has resumed after a sibling task wrote another object to the shadow
\* of their thread
SurvivesSuspensionWitness ==
    /\ last.op = "yield"
    /\ IsRunning(1)
    /\ last.task # 1
    /\ tls[thread[1]] # NoOps
    /\ tls[thread[1]] # get_current_ops(1)

\* C9: a gpu-allocator call for a framework that is not installed ends with
\* MissingDependencyError and leaves the registry, the pools constructed and
\* the active allocator as they were
MissingFrameworkNoMutation ==
    (last.op \in PoolOps /\ last.arg \in Frameworks /\ last.arg \notin installed) =>
        /\ last.err = "MissingDependencyError"
        /\ pools = last.prePools
        /\ Len(poolHeap) = last.preMade
        /\ allocator = last.preAlloc

\* the call for pytorch failed in a process where cupy is installed and the
\* tensorflow pool is the active allocator
MissingFrameworkNoMutationWitness ==
    /\ last.op \in PoolOps
    /\ last.arg = "pytorch"
    /\ "pytorch" \notin installed
    /\ "cupy" \in installed
    /\ last.err = "MissingDependencyError"
    /\ pools["tensorflow"] # 0
    /\ allocator = pools["tensorflow"]

\* C10: the active allocator is the pool of the tag of the most recent
\* successful call, and every pool ever constructed is still in the registry
LastWriterWins ==
    /\ lastTag # "none" => (pools[lastTag] # 0 /\ allocator = pools[lastTag])
    /\ \A p \in 1..Len(poolHeap) : pools[poolHeap[p]] = p

\* the most recent call switched the allocator back to a pool that existed
LastWriterWinsWitness ==
    /\ last.op \in PoolOps
    /\ last.err = ""
    /\ lastTag = "pytorch"
    /\ last.prePools["pytorch"] # 0
    /\ last.preAlloc = pools["tensorflow"]
    /\ last.preAlloc # 0
    /\ allocator = pools["pytorch"]

\* C11: get_ops with a name that is not registered raises and constructs no
\* object; with a registered name it returns an object of exactly that class
GetOpsByName ==
    last.op = "get_ops" =>
        /\ last.arg = "numpy" => (last.err = "" /\ last.ret = NumpyOps)
        /\ last.arg = "cupy" => (last.err = "" /\ last.ret = CupyOps)
        /\ last.arg \notin {"numpy", "cupy"} => (last.err = "ValueError" /\ last.ret = NoOps)

\* get_ops has raised for an unregistered name while CupyOps was current
GetOpsByNameWitness ==
    /\ last.op = "get_ops"
    /\ last.arg = "nonexistent"
    /\ last.err = "ValueError"
    /\ get_current_ops(last.task) = CupyOps

\* C12: set_gpu_allocator with a name outside {pytorch, tensorflow} raises
\* ValueError and changes neither the pool registry nor the installed
\* allocator; with a valid name that returns, the installed allocator is the
\* pool registered under exactly that tag and the other tag's entry is untouched
SetGpuAllocatorRoutes ==
    last.op = "set_gpu_allocator" =>
        /\ last.arg \notin Frameworks =>
              /\ last.err = "ValueError"
              /\ pools = last.prePools
              /\ allocator = last.preAlloc
              /\ Len(poolHeap) = last.preMade
        /\ last.arg \in Frameworks => last.err # "ValueError"
        /\ (last.arg \in Frameworks /\ last.err = "") =>
              /\ pools[last.arg] # 0
              /\ poolHeap[pools[last.arg]] = last.arg
              /\ allocator = pools[last.arg]
              /\ \A f \in Frameworks \ {last.arg} : pools[f] = last.prePools[f]

\* an invalid name was rejected while a pytorch pool was installed
SetGpuAllocatorRoutesWitness ==
    /\ last.op = "set_gpu_allocator"
    /\ last.arg = "mxnet"
    /\ last.err = "ValueError"
    /\ pools["pytorch"] # 0
    /\ allocator = pools["pytorch"]

\* C13: defaults always exist. On a thread where no switch was performed every
\* task's get_current_ops() is NumpyOps and the shadow read yields NumpyOps; the
\* first shadow read creates the thread's slot holding NumpyOps; and a thread
\* started after switches on other threads starts with both defaults
DefaultsExist ==
    [][/\ \A th \in Threads : tls[th] = NoOps =>
             /\ shadow_ops(th) = NumpyOps
             /\ \A t \in Tasks : thread[t] = th => get_current_ops(t) = NumpyOps
       /\ last'.op = "views_agree" =>
             /\ tls'[thread[last'.task]] = shadow_ops(thread[last'.task])
             /\ tls[thread[last'.task]] = NoOps => tls'[thread[last'.task]] = NumpyOps
       /\ last'.op = "spawn_thread" =>
             /\ tls'[Len(tls')] = NoOps
             /\ local_ops(tls'[Len(tls')]) = NumpyOps
             /\ context_get(ctx'[Len(ctx')]) = NumpyOps]_vars

\* the first shadow read on a second thread created its slot with NumpyOps
\* although the first thread had switched to CupyOps
DefaultsExistWitness ==
    /\ last.op = "views_agree"
    /\ thread[last.task] = 2
    /\ ctx[last.task] = NoOps
    /\ tls[2] = NumpyOps
    /\ tls[1] = CupyOps
    /\ get_current_ops(1) = CupyOps

\* C14: get_array_ops returns a CupyOps for every value that is_cupy_array
\* accepts and a NumpyOps for every other value; it does not raise and leaves
\* every Context and every thread's shadow as they were
GetArrayOpsByStorage ==
    [][last'.op = "get_array_ops" =>
          /\ last'.err = ""
          /\ last'.ret = IF is_cupy_array(last'.arg) THEN CupyOps ELSE NumpyOps
          /\ ctx' = ctx
          /\ tls' = tls]_vars

\* a host array was given while CupyOps was current: the result is NumpyOps
\* and CupyOps is still current in both views
GetArrayOpsByStorageWitness ==
    /\ last.op = "get_array_ops"
    /\ last.arg = "numpy.ndarray"
    /\ last.ret = NumpyOps
    /\ get_current_ops(last.task) = CupyOps
    /\ shadow_ops(thread[last.task]) = CupyOps

\* C15: the thread's shadow is shared by the tasks of the thread. After a task
\* calls set_current_ops(B), every other task of the same thread reads B from
\* the shadow while its own get_current_ops() is what it was, so a state in
\* which contextvars_eq_thread_ops() is false for the other task is reachable
ShadowNotTaskAware ==
    [][last'.op = "set" =>
          \A u \in Tasks \ {last'.task} : thread[u] = thread[last'.task] =>
              /\ local_ops(tls'[thread[u]]) = last'.arg
              /\ context_get(ctx'[u]) = get_current_ops(u)]_vars

\* a task resumed after another task of its thread switched to CupyOps: its
\* own current ops is still NumpyOps, its shadow read yields CupyOps
ShadowNotTaskAwareWitness ==
    /\ last.op = "views_agree"
    /\ get_current_ops(last.task) = NumpyOps
    /\ shadow_ops(thread[last.task]) = CupyOps
    /\ ~contextvars_eq_thread_ops(last.task)
    /\ \E u \in Tasks \ {last.task} :
          /\ thread[u] = thread[last.task]
          /\ get_current_ops(u) = CupyOps

\* C16: a set_current_ops call, a use_ops entry or a use_ops exit (normal or by
\* an error) on one thread changes neither get_current_ops() of any task of
\* another thread nor the shadow of any other thread
ThreadIsolation ==
    [][last'.op \in {"set", "enter", "exit", "raise"} =>
          \A u \in Tasks : thread[u] # thread[last'.task] =>
              /\ context_get(ctx'[u]) = get_current_ops(u)
              /\ local_ops(tls'[thread[u]]) = shadow_ops(thread[u])
              /\ tls'[thread[u]] = tls[thread[u]]]_vars

\* the second thread switched to CupyOps after the first had switched to an
\* object of another Ops subclass, which the first thread still sees
ThreadIsolationWitness ==
    /\ last.op = "set"
    /\ last.arg = CupyOps
    /\ thread[last.task] = 2
    /\ tls[2] = CupyOps
    /\ tls[1] = "Ops"
    /\ get_current_ops(1) = "Ops"

\* C17: for a task that is the only task of its thread, get_current_ops() and
\* the thread's shadow are objects of the same class in every reachable state,
\* whatever set_current_ops calls, use_ops entries, normal exits and exits by an
\* error came before
SingleContextViewsAgree ==
    \A t \in Tasks :
        (\A u \in Tasks : thread[u] = thread[t] => u = t) =>
            contextvars_eq_thread_ops(t)

\* the only task of the process left a use_ops("cupy") block by an error: both
\* views still hold CupyOps
SingleContextViewsAgreeWitness ==
    /\ Len(thread) = 1
    /\ last.op = "raise"
    /\ last.arg = NumpyOps
    /\ stack[1] = <<>>
    /\ get_current_ops(1) = CupyOps
    /\ tls[1] = CupyOps

\* C18: the pool registry is one for the whole process. A call for a tag whose
\* pool exists, whichever task on whichever thread constructed it, finds that
\* pool, constructs nothing and installs it; this includes a call by the parent
\* of the constructing task and a call on a thread that was started before the
\* pool was constructed
PoolRegistryProcessGlobal ==
    /\ Len(poolMaker) = Len(poolHeap)
    /\ \A f \in Frameworks : pools[f] # 0 => poolHeap[pools[f]] = f
    /\ (last.op \in PoolOps /\ last.err = "" /\ last.prePools[last.arg] # 0) =>
            /\ poolMaker[last.prePools[last.arg]] \in Tasks
            /\ pools[last.arg] = last.prePools[last.arg]
            /\ allocator = last.prePools[last.arg]
            /\ Len(poolMaker) = last.preMade

\* the first task, on the first thread, reused the pool that the task it had
\* started on a second thread constructed
PoolRegistryProcessGlobalWitness ==
    /\ last.op \in PoolOps
    /\ last.err = ""
    /\ last.task = 1
    /\ last.prePools[last.arg] # 0
    /\ poolMaker[last.prePools[last.arg]] = 2
    /\ thread[2] = 2
    /\ allocator = pools[last.arg]

\* C19: use_ops entered with a name that is not registered raises before
\* anything is written: no block is opened, and every task's get_current_ops()
\* and every thread's shadow are after the failed entry what they were before
FailedEntryWritesNothing ==
    [][(last'.op = "enter" /\ last'.arg \notin {"numpy", "cupy"}) =>
          /\ last'.err = "ValueError"
          /\ stack' = stack
          /\ entered' = entered
          /\ ctx' = ctx
          /\ tls' = tls]_vars

\* an entry with an unregistered name failed inside an open use_ops("cupy")
\* block: CupyOps is still current in both views and the block is still open
FailedEntryWritesNothingWitness ==
    /\ last.op = "enter"
    /\ last.arg = "nonexistent"
    /\ last.err = "ValueError"
    /\ Len(stack[last.task]) = 1
    /\ get_current_ops(last.task) = CupyOps
    /\ shadow_ops(thread[last.task]) = CupyOps

====
